---- MODULE Spec2Model ----
(***************************************************************************)
(* A model of finetune.py: the dataset split of the __main__ block, the    *)
(* label lookup of ADNIDataset.__getitem__, and the freezing, optimizer    *)
(* and per-stage metric bookkeeping of FinetuneModel under the Lightning   *)
(* trainer that __main__ starts.                                           *)
(*                                                                         *)
(* Ratios are floats in the program.  Here a ratio r is the integer        *)
(* numerator of r = num / RatioDen; for these values and record counts     *)
(* below 40, Python's int(r * n) equals the exact truncated product.       *)
(***************************************************************************)
EXTENDS Integers, Sequences, FiniteSets, TLC

\* ---------------------------------------------------------------- bounds
MaxRecords == 4
MaxSeed == 23
RatioDen == 10
MaxLines == 2
MaxSteps == 2

VARIABLES
    pc,             \* position of the program / of the trainer
    args,           \* the parsed command line (argparse namespace)
    dataset_len,    \* len(dataset)
    lengths,        \* the list `lengths` of the split
    val_dataset,    \* indices of the validation Subset
    test_dataset,   \* indices of the test Subset
    train_dataset,  \* indices of the train Subset
    discarded,      \* indices of the fourth Subset, bound to `_`
    lines,          \* ADNIDataset.lines: the label fields of the manifest rows
    classification, \* ADNIDataset.classification
    item,           \* outcome of the last ADNIDataset.__getitem__
    hparams,        \* FinetuneModel.hparams
    requires_grad,  \* parameter -> its requires_grad flag
    training,       \* sub-module -> nn.Module.training
    optimizer,      \* the parameters handed to AdamW
    updates,        \* parameter -> number of optimizer updates it received
    metric,         \* accumulator (train_metric / test_metric / val_metric) -> updates
    calls           \* step method -> number of calls by the trainer

splitVars == <<args, dataset_len, lengths, val_dataset, test_dataset, train_dataset, discarded>>
dataVars == <<lines, classification, item>>
trainVars == <<hparams, requires_grad, training, optimizer, updates, metric, calls>>
vars == <<pc, splitVars, dataVars, trainVars>>

\* ------------------------------------------------------- helper functions
RECURSIVE Sum(_)
\* Python's sum() over a list of integers.
Sum(s) == IF s = <<>> THEN 0 ELSE Head(s) + Sum(Tail(s))

\* Python's int() of the quotient a / b (b > 0): truncation toward zero.
Trunc(a, b) == IF a >= 0 THEN a \div b ELSE -((-a) \div b)

\* int(ratio * k) for a ratio given as a numerator over RatioDen.
IntMul(ratio, k) == Trunc(ratio * k, RatioDen)

\* The ratios the command line is given: -0.5, 0, 0.2, 0.5, 1 and 1.2.
Ratios == {-5, 0, 2, 5, RatioDen, RatioDen + 2}

\* args.train_ratio == 1
IsOne(ratio) == ratio = RatioDen

\* Lengths with the train size taken as a fraction of the whole dataset.
LengthsTrainOfWhole(n, val_ratio, test_ratio, train_ratio) ==
    LET l2 == <<IntMul(val_ratio, n), IntMul(test_ratio, n)>>
    IN  IF IsOne(train_ratio)
        THEN Append(l2, n - Sum(l2))
        ELSE Append(Append(l2, IntMul(train_ratio, n)), n - Sum(l2))

\* The list `lengths` as lines 209-215 build it.
Lengths(n, val_ratio, test_ratio, train_ratio) ==
    LET l2 == <<IntMul(val_ratio, n), IntMul(test_ratio, n)>>
    IN  IF IsOne(train_ratio)
        THEN Append(l2, n - Sum(l2))
        ELSE LET l3 == Append(l2, IntMul(train_ratio, n - Sum(l2)))
             IN  Append(l3, n - Sum(l3))

RECURSIVE Fact(_)
Fact(n) == IF n <= 0 THEN 1 ELSE n * Fact(n - 1)

RemoveAt(s, i) == SubSeq(s, 1, i - 1) \o SubSeq(s, i + 1, Len(s))

RECURSIVE NthPerm(_, _)
\* The k-th arrangement (lexicographic order) of the elements of pool.
NthPerm(k, pool) ==
    IF pool = <<>> THEN <<>>
    ELSE LET f == Fact(Len(pool) - 1)
             i == (k \div f) % Len(pool)
         IN  <<pool[i + 1]>> \o NthPerm(k % f, RemoveAt(pool, i + 1))

\* torch.randperm(n) drawn from the default generator right after
\* pl.seed_everything(seed): a permutation of 0..n-1 fixed by seed and n.
\* Every permutation of 0..n-1 is the draw of some seed below n!.
Randperm(seed, n) == NthPerm(seed % Fact(n), [i \in 1..n |-> i - 1])

\* s[a:b] with the upper bound taken as inclusive.
PySliceInclusive(s, a, b) ==
    LET len == Len(s)
        norm(x) == IF x < 0 THEN (IF x + len < 0 THEN 0 ELSE x + len)
                   ELSE (IF x > len THEN len ELSE x)
        lo == norm(a)
        hi == norm(b + 1)
    IN  IF lo < hi THEN SubSeq(s, lo + 1, hi) ELSE <<>>

\* Python's s[a:b] on a list, negative and out-of-range bounds included.
PySlice(s, a, b) ==
    LET len == Len(s)
        norm(x) == IF x < 0 THEN (IF x + len < 0 THEN 0 ELSE x + len)
                   ELSE (IF x > len THEN len ELSE x)
        lo == norm(a)
        hi == norm(b)
    IN  IF lo < hi THEN SubSeq(s, lo + 1, hi) ELSE <<>>

\* itertools.accumulate(lengths)[i]
Offset(ls, i) == Sum(SubSeq(ls, 1, i))

\* random_split with the train block (the third length) carved first.
random_split_train_first(n, ls, seed) ==
    IF Sum(ls) # n THEN <<"ValueError">>
    ELSE LET indices == Randperm(seed, Sum(ls))
             start(i) == IF i = 3 THEN 0
                         ELSE IF i = 4 THEN Offset(ls, 3)
                         ELSE ls[3] + Offset(ls, i) - ls[i]
         IN  [i \in 1..Len(ls) |-> PySlice(indices, start(i), start(i) + ls[i])]

\* torch.utils.data.random_split(dataset, lengths) as the program calls it:
\* the list of index blocks, or <<"ValueError">> when the lengths do not sum
\* to len(dataset).
random_split(n, ls, seed) ==
    IF Sum(ls) # n THEN <<"ValueError">>
    ELSE LET indices == Randperm(seed, Sum(ls))
         IN  [i \in 1..Len(ls) |-> PySlice(indices, Offset(ls, i) - ls[i], Offset(ls, i))]

Range(s) == {s[i] : i \in 1..Len(s)}

NoArgs == [val_ratio |-> 0, test_ratio |-> 0, train_ratio |-> 0, random_seed |-> 0]

\* ------------------------------------------------ the split of __main__
InitSplitVars ==
    /\ args = NoArgs
    /\ dataset_len = 0
    /\ lengths = <<>>
    /\ val_dataset = <<>>
    /\ test_dataset = <<>>
    /\ train_dataset = <<>>
    /\ discarded = <<>>

InitDataVars ==
    /\ lines = <<>>
    /\ classification = 1
    /\ item = [status |-> "none", label |-> <<>>, idx |-> 0]

\* parser.parse_args(); pl.seed_everything(args.random_seed)
ParseArgs ==
    /\ pc = "start"
    /\ \E vr \in Ratios, tr \in Ratios, trr \in Ratios, seed \in 0..MaxSeed :
          args' = [val_ratio |-> vr, test_ratio |-> tr, train_ratio |-> trr,
                   random_seed |-> seed]
    /\ pc' = "seeded"
    /\ UNCHANGED <<dataset_len, lengths, val_dataset, test_dataset, train_dataset, discarded>>
    /\ UNCHANGED <<dataVars, trainVars>>

\* dataset = ADNIDataset(...): the manifest has n rows after the header.
CreateDataset ==
    /\ pc = "seeded"
    /\ \E n \in 0..MaxRecords : dataset_len' = n
    /\ pc' = "dataset"
    /\ UNCHANGED <<args, lengths, val_dataset, test_dataset, train_dataset, discarded>>
    /\ UNCHANGED <<dataVars, trainVars>>

\* Lines 209-216: build lengths, call random_split and unpack its result.
SplitDataset ==
    /\ pc = "dataset"
    /\ LET ls == Lengths(dataset_len, args.val_ratio, args.test_ratio, args.train_ratio)
           parts == random_split(dataset_len, ls, args.random_seed)
       IN  /\ lengths' = ls
           /\ IF parts = <<"ValueError">>
              THEN /\ pc' = "ValueError"
                   /\ UNCHANGED <<val_dataset, test_dataset, train_dataset, discarded>>
              ELSE /\ pc' = "split"
                   /\ val_dataset' = parts[1]
                   /\ test_dataset' = parts[2]
                   /\ train_dataset' = parts[3]
                   /\ discarded' = IF Len(parts) = 4 THEN parts[4] ELSE <<>>
    /\ UNCHANGED <<args, dataset_len>>
    /\ UNCHANGED <<dataVars, trainVars>>

\* ------------------------------------------- ADNIDataset.__getitem__
q == "\""

RECURSIVE LStrip(_, _)
LStrip(s, ch) == IF s # <<>> /\ Head(s) = ch THEN LStrip(Tail(s), ch) ELSE s

RECURSIVE RStrip(_, _)
RStrip(s, ch) ==
    IF s # <<>> /\ s[Len(s)] = ch THEN RStrip(SubSeq(s, 1, Len(s) - 1), ch) ELSE s

\* Python's str.strip(ch) on a string held as a sequence of characters.
Strip(s, ch) == RStrip(LStrip(s, ch), ch)

Digits == <<"0", "1", "2", "3", "4", "5", "6", "7", "8", "9">>

DigitValue(c) == CHOOSE d \in 0..9 : Digits[d + 1] = c

RECURSIVE DecimalValue(_)
DecimalValue(s) ==
    IF s = <<>> THEN 0
    ELSE 10 * DecimalValue(SubSeq(s, 1, Len(s) - 1)) + DigitValue(s[Len(s)])

\* Python's float() on a field: <<value>>, or <<>> when it raises ValueError.
\* The fields of the model hold whole numbers or text that is no number.
ParseFloat(s) ==
    IF s # <<>> /\ \A i \in 1..Len(s) : s[i] \in Range(Digits)
    THEN <<DecimalValue(s)>>
    ELSE <<>>

\* A manifest row after x.split(','): columns 0..4, or a short row that
\* ends (with its newline) at column 2.
Row(label, score) == <<<<q, "I", q>>, <<>>, label, <<>>, score>>

Rows == {
    Row(<<q, "A", "D", q>>, <<q, "7", "2", q>>),
    Row(<<q, "C", "N", q>>, <<q, "5", q>>),
    Row(<<q, "M", "C", "I", q>>, <<q, "n", "/", "a", q>>),
    Row(<<q, "F", "O", "O", q>>, <<q, "3", "0", q>>),
    Row(<<"A", "D">>, <<"1">>),
    Row(<<q, "a", "d", q>>, <<q, q>>),
    <<<<q, "I", q>>, <<>>, <<q, "A", "D", q, "\n">>>>,
    <<<<q, "I", q>>, <<>>, <<q, "C", "N", q>>, <<>>, <<q, "4", q, "\n">>>>
}

RECURSIVE SeqsUpTo(_, _)
SeqsUpTo(S, k) ==
    IF k = 0 THEN {<<>>}
    ELSE LET shorter == SeqsUpTo(S, k - 1)
         IN  shorter \cup {Append(s, x) : s \in shorter, x \in S}

\* Lines 160-165 with every branch assigning 1.
ClassLabelAlwaysAD(img_label) == <<1>>

\* Lines 160-165: the label the if / elif chain assigns, <<>> when no branch
\* matches and `label` stays unbound.
ClassLabel(img_label) ==
    IF img_label = <<"A", "D">> THEN <<1>>
    ELSE IF img_label = <<"C", "N">> THEN <<0>>
    ELSE IF img_label = <<"M", "C", "I">> THEN <<2>>
    ELSE <<>>

\* ADNIDataset.__getitem__(idx) on the rows `ls`; decodes tells whether
\* nib.load / get_fdata succeed on the image file.
GetItemResult(ls, cls, idx, decodes) ==
    LET lst == ls[idx + 1]
        label_file_idx == IF cls # 0 THEN 2 ELSE 4
    IN  IF label_file_idx + 1 > Len(lst)
        THEN [status |-> "IndexError", label |-> <<>>, idx |-> idx]
        ELSE LET field == Strip(lst[label_file_idx + 1], q)
                 label == IF cls # 0 THEN ClassLabel(field) ELSE ParseFloat(field)
             IN  IF cls = 0 /\ label = <<>>
                 THEN [status |-> "ValueError", label |-> <<>>, idx |-> idx]
                 ELSE IF ~decodes
                 THEN [status |-> "DecodeError", label |-> <<>>, idx |-> idx]
                 ELSE IF label = <<>>
                 THEN [status |-> "UnboundLocalError", label |-> <<>>, idx |-> idx]
                 ELSE [status |-> "returned", label |-> label, idx |-> idx]

\* The stripped label string of row idx (line 159).
ImgLabel(ls, idx) == Strip(ls[idx + 1][3], q)

GetItem ==
    /\ pc = "dataset"
    /\ \E idx \in 0..(Len(lines) - 1), decodes \in BOOLEAN :
          item' = GetItemResult(lines, classification, idx, decodes)
    /\ UNCHANGED <<pc, lines, classification>>
    /\ UNCHANGED <<splitVars, trainVars>>

InitTrainVars ==
    /\ hparams = <<>>
    /\ requires_grad = <<>>
    /\ training = <<>>
    /\ optimizer = {}
    /\ updates = <<>>
    /\ metric = <<>>
    /\ calls = <<>>

InitSplit == pc = "start" /\ InitSplitVars /\ InitDataVars /\ InitTrainVars

NextSplit == ParseArgs \/ CreateDataset \/ SplitDataset

SpecSplit == InitSplit /\ [][NextSplit]_vars

\* dataset = ADNIDataset(root_dir, data_file, classification) over a manifest
\* of at most MaxLines rows.
InitData ==
    /\ pc = "dataset"
    /\ InitSplitVars
    /\ InitTrainVars
    /\ lines \in SeqsUpTo(Rows, MaxLines)
    /\ classification \in {0, 1}
    /\ item = [status |-> "none", label |-> <<>>, idx |-> 0]

NextData == GetItem

SpecData == InitData /\ [][NextData]_vars

\* ------------------------------------- FinetuneModel and the trainer
\* The sub-modules of FinetuneModel: the transformer, the three CNNs of the
\* ModuleList cnn_models, and the Sequential mlps.
Modules == {"transformer", "cnn_models.0", "cnn_models.1", "cnn_models.2", "mlps"}

\* The modules reached through an attribute of FinetuneModel.
SubModules(attr) ==
    IF attr = "cnn_models" THEN {"cnn_models.0", "cnn_models.1", "cnn_models.2"}
    ELSE {attr}

\* Each sub-module owns a weight and a bias.
Parameters(ms) == {<<m, k>> : m \in ms, k \in {"weight", "bias"}}

Stages == {"train", "val", "test"}

Freeze(rg, ps) == [p \in DOMAIN rg |-> IF p \in ps THEN FALSE ELSE rg[p]]

\* nn.Module.eval() on the modules ms.
Eval(tr, ms) == [m \in DOMAIN tr |-> IF m \in ms THEN FALSE ELSE tr[m]]

\* nn.Module.train() / .eval() called on the whole FinetuneModel: it sets
\* the flag of every sub-module.
ModelTrain(tr, mode) == [m \in DOMAIN tr |-> mode]

\* The attributes __init__ freezes (lines 28 and 39).
FrozenAttrs(hp) ==
    (IF hp.finetune_transformer = 0 THEN {"transformer"} ELSE {})
    \cup (IF hp.finetune_cnn = 0 THEN {"cnn_models"} ELSE {})

FrozenModules(hp) == UNION {SubModules(a) : a \in FrozenAttrs(hp)}

\* The optimizer over self.parameters(), without the filter.
configure_optimizers_unfiltered(rg) == DOMAIN rg

\* Line 68: AdamW over filter(lambda x: x.requires_grad, self.parameters()).
configure_optimizers(rg) == {p \in DOMAIN rg : rg[p]}

\* The selection with the test and val entries exchanged.
MetricOfSwapped(stage) ==
    IF stage = "train" THEN "train_metric"
    ELSE IF stage = "test" THEN "val_metric"
    ELSE "test_metric"

\* Lines 102-106: the accumulator selected for a stage.
MetricOf(stage) ==
    IF stage = "train" THEN "train_metric"
    ELSE IF stage = "test" THEN "test_metric"
    ELSE "val_metric"

\* get_loss_metrics(input, target, stage): metric(pred_metric, target)
\* updates the selected accumulator once.
get_loss_metrics(mt, stage) == [mt EXCEPT ![MetricOf(stage)] = @ + 1]

\* One optimizer step: every parameter handed to AdamW is updated.
OptimizerStep(upd, opt) == [p \in DOMAIN upd |-> IF p \in opt THEN upd[p] + 1 ELSE upd[p]]

\* model = FinetuneModel(args)
Construct ==
    /\ pc = "start"
    /\ \E ft \in {0, 1}, fc \in {0, 1}, cls \in {0, 1} :
          LET hp == [finetune_transformer |-> ft, finetune_cnn |-> fc,
                     classification |-> cls]
          IN  /\ hparams' = hp
              /\ requires_grad' = Freeze([p \in Parameters(Modules) |-> TRUE],
                                         Parameters(FrozenModules(hp)))
              /\ training' = Eval([m \in Modules |-> TRUE], FrozenModules(hp))
    /\ optimizer' = {}
    /\ updates' = [p \in Parameters(Modules) |-> 0]
    /\ metric' = [a \in {"train_metric", "test_metric", "val_metric"} |-> 0]
    /\ calls' = [s \in Stages |-> 0]
    /\ pc' = "constructed"
    /\ UNCHANGED <<splitVars, dataVars>>

\* trainer.fit(model, ...): the trainer asks for the optimizer and puts the
\* model in training mode before the training loop.
Fit ==
    /\ pc = "constructed"
    /\ optimizer' = configure_optimizers(requires_grad)
    /\ training' = ModelTrain(training, TRUE)
    /\ pc' = "fit"
    /\ UNCHANGED <<hparams, requires_grad, updates, metric, calls>>
    /\ UNCHANGED <<splitVars, dataVars>>

\* One training batch: training_step, then the optimizer step.
TrainingStep ==
    /\ pc = "fit"
    /\ calls["train"] < MaxSteps
    /\ metric' = get_loss_metrics(metric, "train")
    /\ calls' = [calls EXCEPT !["train"] = @ + 1]
    /\ updates' = OptimizerStep(updates, optimizer)
    /\ UNCHANGED <<pc, hparams, requires_grad, training, optimizer>>
    /\ UNCHANGED <<splitVars, dataVars>>

\* The validation loop inside fit starts: model.eval().
ValidationStart ==
    /\ pc = "fit"
    /\ calls["val"] < MaxSteps
    /\ training' = ModelTrain(training, FALSE)
    /\ pc' = "validate"
    /\ UNCHANGED <<hparams, requires_grad, optimizer, updates, metric, calls>>
    /\ UNCHANGED <<splitVars, dataVars>>

\* One validation batch: validation_step.
ValidationStep ==
    /\ pc = "validate"
    /\ calls["val"] < MaxSteps
    /\ metric' = get_loss_metrics(metric, "val")
    /\ calls' = [calls EXCEPT !["val"] = @ + 1]
    /\ UNCHANGED <<pc, hparams, requires_grad, training, optimizer, updates>>
    /\ UNCHANGED <<splitVars, dataVars>>

\* The validation loop ends: model.train(), back to the training loop.
ValidationEnd ==
    /\ pc = "validate"
    /\ training' = ModelTrain(training, TRUE)
    /\ pc' = "fit"
    /\ UNCHANGED <<hparams, requires_grad, optimizer, updates, metric, calls>>
    /\ UNCHANGED <<splitVars, dataVars>>

\* trainer.test(model, test_dataloader) after fit returned: model.eval().
Test ==
    /\ pc = "fit"
    /\ training' = ModelTrain(training, FALSE)
    /\ pc' = "test"
    /\ UNCHANGED <<hparams, requires_grad, optimizer, updates, metric, calls>>
    /\ UNCHANGED <<splitVars, dataVars>>

\* One test batch: test_step.
TestStep ==
    /\ pc = "test"
    /\ calls["test"] < MaxSteps
    /\ metric' = get_loss_metrics(metric, "test")
    /\ calls' = [calls EXCEPT !["test"] = @ + 1]
    /\ UNCHANGED <<pc, hparams, requires_grad, training, optimizer, updates>>
    /\ UNCHANGED <<splitVars, dataVars>>

InitTrain == pc = "start" /\ InitSplitVars /\ InitDataVars /\ InitTrainVars

NextTrain ==
    \/ Construct
    \/ Fit
    \/ TrainingStep
    \/ ValidationStart
    \/ ValidationStep
    \/ ValidationEnd
    \/ Test
    \/ TestStep

SpecTrain == InitTrain /\ [][NextTrain]_vars

\* =================================================== the split, checked
SplitDone == pc = "split"

InUnitInterval(ratio) == 0 < ratio /\ ratio <= RatioDen

\* C1: the computed sizes account for all n records: three sizes summing to
\* n when train_ratio == 1, four sizes (the last the discard) summing to n
\* otherwise.
C1_SizesSumToN ==
    pc \in {"split", "ValueError"} =>
        /\ Sum(lengths) = dataset_len
        /\ Len(lengths) = IF IsOne(args.train_ratio) THEN 3 ELSE 4
        /\ pc = "split"

C1_Witness ==
    /\ SplitDone
    /\ ~IsOne(args.train_ratio)
    /\ lengths[3] >= 1
    /\ lengths[4] >= 1
    /\ Lengths(10, 2, 2, RatioDen) = <<2, 2, 6>>
    /\ Lengths(10, 2, 2, 5) = <<2, 2, 3, 3>>

\* C2: with train_ratio == 1 and val_ratio, test_ratio in (0,1], the sizes
\* val_size, test_size and train_size are all non-negative.
C2_NoDiscardSizesNonNegative ==
    (/\ SplitDone
     /\ IsOne(args.train_ratio)
     /\ InUnitInterval(args.val_ratio)
     /\ InUnitInterval(args.test_ratio))
    => \A i \in 1..3 : lengths[i] >= 0

\* C3: the split never proceeds to partition the records when a ratio lies
\* outside (0,1] or when val_size + test_size > n.
C3_InvalidRatiosRejected ==
    SplitDone =>
        /\ InUnitInterval(args.val_ratio)
        /\ InUnitInterval(args.test_ratio)
        /\ InUnitInterval(args.train_ratio)
        /\ lengths[1] + lengths[2] <= dataset_len

PairwiseDisjoint(a, b, c) ==
    /\ Range(a) \cap Range(b) = {}
    /\ Range(a) \cap Range(c) = {}
    /\ Range(b) \cap Range(c) = {}

ConsecutiveBlocks ==
    /\ Len(val_dataset) = lengths[1]
    /\ Len(test_dataset) = lengths[2]
    /\ Len(train_dataset) = lengths[3]
    /\ val_dataset \o test_dataset \o train_dataset \o discarded
           = Randperm(args.random_seed, dataset_len)

\* C9 as stated: for ratios in (0,1] with val_size + test_size <= n and a
\* non-empty manifest, the three subsets are consecutive, pairwise disjoint
\* blocks of one permutation, and train_ratio != 1 leaves at least one
\* record to the discarded partition.
C9_DiscardWheneverNotOne ==
    (/\ SplitDone
     /\ dataset_len >= 1
     /\ InUnitInterval(args.val_ratio)
     /\ InUnitInterval(args.test_ratio)
     /\ InUnitInterval(args.train_ratio)
     /\ lengths[1] + lengths[2] <= dataset_len)
    => /\ ConsecutiveBlocks
       /\ PairwiseDisjoint(val_dataset, test_dataset, train_dataset)
       /\ ~IsOne(args.train_ratio) => Len(discarded) >= 1

\* C9 amended: when all computed sizes are non-negative the subsets are
\* consecutive, pairwise disjoint blocks of one permutation; and for
\* 0 <= train_ratio < 1 with non-negative val_size, test_size and
\* val_size + test_size <= n, a record is discarded exactly when
\* val_size + test_size < n (none is when val and test take everything).
C9_BlocksAndDiscard ==
    SplitDone =>
        /\ (\A i \in 1..Len(lengths) : lengths[i] >= 0)
              => /\ ConsecutiveBlocks
                 /\ PairwiseDisjoint(val_dataset, test_dataset, train_dataset)
                 /\ Range(discarded) \cap
                        (Range(val_dataset) \cup Range(test_dataset)
                             \cup Range(train_dataset)) = {}
        /\ (/\ 0 <= args.train_ratio
            /\ args.train_ratio < RatioDen
            /\ lengths[1] >= 0
            /\ lengths[2] >= 0
            /\ lengths[1] + lengths[2] <= dataset_len)
              => (Len(discarded) >= 1 <=> lengths[1] + lengths[2] < dataset_len)

C9_Witness ==
    /\ SplitDone
    /\ InUnitInterval(args.val_ratio)
    /\ InUnitInterval(args.test_ratio)
    /\ InUnitInterval(args.train_ratio)
    /\ ~IsOne(args.train_ratio)
    /\ dataset_len >= 2
    /\ val_dataset # <<>>
    /\ test_dataset # <<>>
    /\ lengths[1] + lengths[2] = dataset_len
    /\ discarded = <<>>

\* C10: for a fixed manifest, seed, val_ratio and test_ratio, the validation
\* and test subsets are the same for every train_ratio.
C10_EvalSetsIndependentOfTrainRatio ==
    SplitDone =>
        \A trr \in Ratios :
            LET ls == Lengths(dataset_len, args.val_ratio, args.test_ratio, trr)
                parts == random_split(dataset_len, ls, args.random_seed)
            IN  /\ parts[1] = val_dataset
                /\ parts[2] = test_dataset

C10_Witness ==
    /\ SplitDone
    /\ val_dataset # <<>>
    /\ test_dataset # <<>>
    /\ train_dataset # <<>>
    /\ \E trr \in Ratios :
          LET ls == Lengths(dataset_len, args.val_ratio, args.test_ratio, trr)
              parts == random_split(dataset_len, ls, args.random_seed)
          IN  /\ InUnitInterval(trr)
              /\ parts[3] # train_dataset
              /\ parts[1] = val_dataset

\* ========================================== the label lookup, checked
KnownLabels == {<<"A", "D">>, <<"C", "N">>, <<"M", "C", "I">>}

Accessed == item.status # "none"

\* C4: in classification mode, accessing a record whose label string is
\* none of AD, CN, MCI (and whose image decodes) fails with an
\* UnknownLabelError, and never returns a pair.
C4_UnknownLabelError ==
    (/\ Accessed
     /\ classification # 0
     /\ item.status # "DecodeError"
     /\ ImgLabel(lines, item.idx) \notin KnownLabels)
    => item.status = "UnknownLabelError"

\* C5: in classification mode a returned label is the table entry of the
\* record's label string (AD -> 1, CN -> 0, MCI -> 2), so it is in {0,1,2}.
C5_LabelFromTable ==
    (Accessed /\ classification # 0 /\ item.status = "returned") =>
        LET img_label == ImgLabel(lines, item.idx)
        IN  /\ item.label \in {<<0>>, <<1>>, <<2>>}
            /\ img_label = <<"A", "D">> => item.label = <<1>>
            /\ img_label = <<"C", "N">> => item.label = <<0>>
            /\ img_label = <<"M", "C", "I">> => item.label = <<2>>
            /\ img_label \in KnownLabels

C5_Witness ==
    /\ classification # 0
    /\ item.status = "returned"
    /\ item.label = <<2>>
    /\ Len(lines) = 2
    /\ item.idx = 1

\* ============================================ the model, checked
Constructed == pc # "start"

FlagOf(attr) ==
    IF attr = "transformer" THEN hparams.finetune_transformer ELSE hparams.finetune_cnn

\* C6: a sub-model built with finetune false has no trainable parameter,
\* none of its parameters in the optimizer, and none ever updated; one built
\* with finetune true keeps every parameter trainable and, once the
\* optimizer is built, in the optimizer.
C6_FrozenNeverUpdated ==
    Constructed =>
        \A attr \in {"transformer", "cnn_models"} :
            \A p \in Parameters(SubModules(attr)) :
                IF FlagOf(attr) = 0
                THEN /\ ~requires_grad[p]
                     /\ p \notin optimizer
                     /\ updates[p] = 0
                ELSE /\ requires_grad[p]
                     /\ pc # "constructed" => p \in optimizer
                     /\ updates[p] = calls["train"]

C6_Witness ==
    /\ pc = "test"
    /\ hparams.finetune_cnn = 0
    /\ hparams.finetune_transformer = 1
    /\ calls["train"] = MaxSteps
    /\ calls["test"] >= 1
    /\ updates[<<"transformer", "weight">>] = MaxSteps
    /\ updates[<<"cnn_models.1", "bias">>] = 0

\* C7: a sub-model built with finetune false is in inference-only mode at
\* the end of construction and in every later state of the run.
C7_FrozenStaysInEval ==
    Constructed =>
        \A attr \in {"transformer", "cnn_models"} :
            FlagOf(attr) = 0 => \A m \in SubModules(attr) : ~training[m]

\* C8: every accumulator has been updated exactly as many times as the step
\* of its own stage was called (training_step -> train_metric,
\* validation_step -> val_metric, test_step -> test_metric).
C8_MetricPerStage ==
    Constructed =>
        /\ metric["train_metric"] = calls["train"]
        /\ metric["val_metric"] = calls["val"]
        /\ metric["test_metric"] = calls["test"]

C8_Witness ==
    /\ pc = "test"
    /\ calls["train"] = 2
    /\ calls["val"] = 1
    /\ calls["test"] = 1
    /\ metric["train_metric"] = 2
    /\ metric["val_metric"] = 1
    /\ metric["test_metric"] = 1

====
